---- MODULE Spec2Model ----
(***************************************************************************)
(* The build execution engine of backend/utils/build_runner.py:            *)
(* run_build_thread (one background task per build) and                    *)
(* run_command_and_stream (one child process per step), together with the  *)
(* two tables they write (Build, BuildLog) and the socketio.emit calls     *)
(* they make.                                                              *)
(*                                                                         *)
(* The pipeline definition and the child processes are inputs.  They are   *)
(* read once and in order by the code, so the model draws each part at the *)
(* moment the code reads it: the shape of the parsed JSON and len(steps)   *)
(* at the parse, the shape of a step when the loop reaches it, whether     *)
(* Popen succeeds at the spawn, each output line at the readline that      *)
(* returns it, and the exit code at proc.wait().                           *)
(*                                                                         *)
(* Every action takes the fault that strikes it: none, a store call that    *)
(* raises, or a socketio.emit that raises.  Spec is the engine with a store *)
(* and a transport that answer every call; FaultSpec adds the faults.  A    *)
(* call of socketio.emit is recorded in events whether or not it raised:    *)
(* the code swallows the exception on the spot (try/except: pass), so the   *)
(* only trace of a failed delivery is the history variable emitFailed.      *)
(*                                                                         *)
(* Three more specifications: LossySpec (emits may raise and the Build row *)
(* may vanish, the store answers), ReplaySpec (a build with failing emits, *)
(* then the same build again with none) and ConcSpec (a build alone, then  *)
(* two concurrent builds on the same inputs).                              *)
(*                                                                         *)
(* ScanSpec is one run of scan_repo of backend/ci-integrity/               *)
(* pyguard_embedding.py, the scanner a pipeline step may call: the files   *)
(* of the repository and their similarity scores are inputs, drawn file by *)
(* file as os.walk yields them.  A score is kept in hundredths (0.65 is    *)
(* 65), and a risk level is the string the code uses, ordered as Python    *)
(* orders strings.                                                         *)
(***************************************************************************)
EXTENDS Integers, Sequences, FiniteSets, TLC

\* ------------------------------------------------------------------ bounds
\* Longest step list of a pipeline definition.
MaxSteps == 3
\* Most output lines the child processes of one build produce in total.
MaxLines == 37
\* The same, in the specification with faults.
MaxFaultLines == 16
\* The same two bounds for a build that is executed twice (ReplaySpec).
ReplaySteps == 2
ReplayLines == 15
\* The same two bounds for each of the builds that run concurrently (ConcSpec).
ConcSteps == 1
ConcLines == 4
\* Most files os.walk yields in one scan (ScanSpec).
MaxFiles == 3

\* ------------------------------------------------------- program constants
\* len(buffer) >= 15: the batch of BuildLog rows committed at once.
BatchSize == 15
\* emit_cooldown >= 5: one build_log event every 5 lines.
EmitEvery == 5
\* The scanner's thresholds 0.50, 0.65 and 0.80, in hundredths.
THRESHOLD_LOW == 50
THRESHOLD_MED == 65
THRESHOLD_HIGH == 80

\* Python's None (an unset column, a missing "cmd" key).
None == "<None>"
\* datetime.now(timezone.utc): only whether finished_at is set matters.
UtcNow == "<utcnow>"

\* What proc.wait() can return, as far as the code tells exit codes apart:
\* zero, or not.
ExitCodes == {0, 1}
\* step.get("cmd"): the key is missing, the command is empty, a command.
Cmds == {None, "", "sh -c ..."}
\* An element of steps is a dict (with the value of its "cmd"), or is not.
StepShapes == Cmds \cup {"<not a dict>"}

VARIABLES
    Build,       \* table Build: id -> [status, finished_at]; DOMAIN = rows that exist
    BuildLog,    \* table BuildLog in insertion (id) order: rows [build_id, step_index, text]
    events,      \* the socketio.emit calls, in call order
    emitFailed,  \* history: the builds one of whose socketio.emit calls raised
    task,        \* build id -> the locals and position of its run_build_thread
    scan         \* the locals and position of one run of pyguard's scan_repo

vars == <<Build, BuildLog, events, emitFailed, task, scan>>

BuildIds == DOMAIN task

\* --------------------------------------------------------------- helpers
Range(s) == {s[k] : k \in 1..Len(s)}

\* The events published for build b, in order.
EventsOf(b, name) ==
    SelectSeq(events, LAMBDA e : e.build_id = b /\ e.event = name)

\* The BuildLog rows of (build_id, step_index), in storage order
\* (get_build_logs: order_by(BuildLog.id.asc())).
RowsOf(b, i) ==
    SelectSeq(BuildLog, LAMBDA r : r.build_id = b /\ r.step_index = i)

TextsOf(b, i) ==
    LET rows == RowsOf(b, i) IN [k \in 1..Len(rows) |-> rows[k].text]

EvStatusUpdate(b, s) ==
    [event |-> "build_status_update", build_id |-> b, payload |-> [status |-> s]]
EvStepStart(b, i, cmd) ==
    [event |-> "build_step_start", build_id |-> b,
     payload |-> [step_index |-> i, cmd |-> cmd]]
EvLog(b, i, text) ==
    [event |-> "build_log", build_id |-> b,
     payload |-> [step_index |-> i, text |-> text]]
EvProgress(b, p) ==
    [event |-> "build_progress", build_id |-> b, payload |-> [progress |-> p]]
EvFinished(b, s) ==
    [event |-> "build_finished", build_id |-> b, payload |-> [status |-> s]]
EvFinishedError(b, s, err) ==
    [event |-> "build_finished", build_id |-> b,
     payload |-> [status |-> s, error |-> err]]

\* The faults of one action.
NoFault == "none"
StoreFault == "a store call raises"
EmitFault == "socketio.emit raises"

\* try: socketio.emit(...) except Exception: pass
Emit(ev, fault) ==
    /\ events' = Append(events, ev)
    /\ emitFailed' = IF fault = EmitFault
                     THEN emitFailed \cup {ev.build_id}
                     ELSE emitFailed

NoEmit == UNCHANGED <<events, emitFailed>>

\* Variant of NoCmd: only a missing command counts, `if cmd is None`.
NoCmdOnlyMissing(cmd) == cmd = None

\* `if not cmd`
NoCmd(cmd) == cmd \in {None, ""}

\* Variant of TotalSteps without `or 1`.
TotalStepsRaw(n) == n

\* total_steps = len(steps) or 1
TotalSteps(n) == IF n = 0 THEN 1 ELSE n

\* round(x) of Python for x = 100 * c / t: to the nearest integer, a tie to
\* the even one.
RoundPercent(c, t) ==
    LET q == (c * 100) \div t
        r == (c * 100) % t
    IN IF 2 * r < t THEN q
       ELSE IF 2 * r > t THEN q + 1
       ELSE IF q % 2 = 0 THEN q ELSE q + 1

\* Variant of ProgressPercent: the percentage rounded, as C9 states it.
ProgressPercentRounded(index, total_steps) == RoundPercent(index + 1, total_steps)

\* Variant of ProgressPercent: the steps before this one, not this one, count
\* as completed.
ProgressPercentFromIndex(index, total_steps) == (index * 100) \div total_steps

\* int(((index + 1) / total_steps) * 100): the float product truncated.  For
\* total_steps below 50 the float result is the exact floor of
\* 100 * (index + 1) / total_steps (the first pair at which the two differ is
\* 29 of 50, where the float product is 57.99...).
ProgressPercent(index, total_steps) == ((index + 1) * 100) \div total_steps

\* `if len(buffer) >= 15`
BatchFull(buffer) == Len(buffer) >= BatchSize

\* Variant of CooldownOver: the comparison is strict.
CooldownOverLate(emit_cooldown) == emit_cooldown > EmitEvery

\* `if emit_cooldown >= 5`
CooldownOver(emit_cooldown) == emit_cooldown >= EmitEvery

\* Variant of StepFailed: only death by signal counts as a failure.
StepFailedNegative(rc) == rc < 0

\* `if rc != 0`
StepFailed(rc) == rc # 0

\* Variant of FlushedRows: the rows are filed under build 1, whichever build
\* wrote them.
FlushedRowsMisfiled(b, i, buffer) ==
    [k \in 1..Len(buffer) |-> [build_id |-> 1, step_index |-> i, text |-> buffer[k]]]

\* Variant of FlushedRows: the buffer is emptied from its end.
FlushedRowsReversed(b, i, buffer) ==
    [k \in 1..Len(buffer) |->
        [build_id |-> b, step_index |-> i, text |-> buffer[Len(buffer) + 1 - k]]]

\* for log_line in buffer: db.session.add(BuildLog(...)); db.session.commit()
FlushedRows(b, i, buffer) ==
    [k \in 1..Len(buffer) |-> [build_id |-> b, step_index |-> i, text |-> buffer[k]]]

\* Variant of Finished: finished_at is left unset.
FinishedNoTimestamp(s) == [status |-> s, finished_at |-> None]

\* build.status = s; build.finished_at = datetime.now(timezone.utc); commit
Finished(s) == [status |-> s, finished_at |-> UtcNow]

\* The handler of `except Exception as e` is entered with the error e.
Raise(t, err) == [t EXCEPT !.pc = "handler", !.error = err]

\* History: what the task has been given from outside itself, each a pair
\* <<what, how many>> (the row looked up, the parsed definition, a step, the
\* outcome of Popen, the lines and the exit code of a process, a store call
\* that raised), and the number of steps the task has taken.  An emit that
\* raised is not among them.
Drew(t, what, n) == [t EXCEPT !.inputs = Append(@, <<what, n>>)]

\* The scanner is a program of its own: no step of a build task touches it.
Upd(b, t) ==
    /\ task' = [task EXCEPT ![b] = [t EXCEPT !.moves = @ + 1]]
    /\ UNCHANGED scan

\* ------------------------------------------------------------------ Init
\* run_pipeline: a Build row with status queued and no finished_at, and
\* run_build_thread scheduled for it as a background task.
NewBuild == [status |-> "queued", finished_at |-> None]

\* scan_repo on entry: no finding, no file counted, no summary yet.
NewScan(fail_on_high) ==
    [pc |-> "walk", fail_on_high |-> fail_on_high, visited |-> 0,
     total_files |-> 0, findings |-> <<>>, overall_risk |-> None,
     exit_code |-> 0]

NewTask ==
    [pc |-> "entry", found |-> FALSE,
     nsteps |-> 0, total_steps |-> 0, index |-> 0,
     cmd |-> None, rc |-> 0,
     buffer |-> <<>>, emit_cooldown |-> 0, lineno |-> 0, proc |-> "none",
     produced |-> 0, quota |-> 0, maxsteps |-> 0, error |-> None,
     started |-> <<>>, outcomes |-> <<>>, inputs |-> <<>>, moves |-> 0]

\* quota: the lines the processes of a build may produce in this model;
\* maxsteps: the longest step list its pipeline definition may have.
InitBuilds(ids, quota, maxsteps) ==
    /\ Build = [b \in ids |-> NewBuild]
    /\ BuildLog = <<>>
    /\ events = <<>>
    /\ emitFailed = {}
    /\ task = [b \in ids |-> [NewTask EXCEPT !.quota = quota,
                                              !.maxsteps = maxsteps]]
    /\ scan = NewScan(FALSE)

Init == InitBuilds({1}, MaxLines, MaxSteps)

FaultInit == InitBuilds({1}, MaxFaultLines, MaxSteps)

\* Variant of Entry without `if not build`: a missing row makes
\* `build.status = "running"` raise, outside any try.
EntryUnguarded(b, fault) ==
    LET t == task[b] IN
    /\ t.pc = "entry"
    /\ fault \in {NoFault, StoreFault}
    /\ IF fault = StoreFault
       THEN /\ Upd(b, [Drew(t, "StoreError", 0) EXCEPT
                           !.pc = "raised", !.error = "StoreError"])
            /\ UNCHANGED Build
       ELSE IF b \notin DOMAIN Build
       THEN /\ Upd(b, [Drew(t, "no row", 0) EXCEPT
                           !.pc = "raised", !.error = "AttributeError"])
            /\ UNCHANGED Build
       ELSE /\ Build' = [Build EXCEPT ![b].status = "running"]
            /\ Upd(b, [Drew(t, "row", 0) EXCEPT !.pc = "notify", !.found = TRUE])
    /\ UNCHANGED <<BuildLog, events, emitFailed>>

\* ------------------------------------------------------- run_build_thread
\* Lines 82-90: look the build up; absent: return; else status running.
\* StoreFault: db.session.get or db.session.commit raises, outside any
\* try, so the exception leaves the task.
Entry(b, fault) ==
    LET t == task[b] IN
    /\ t.pc = "entry"
    /\ fault \in {NoFault, StoreFault}
    /\ IF fault = StoreFault
       THEN /\ Upd(b, [Drew(t, "StoreError", 0) EXCEPT
                           !.pc = "raised", !.error = "StoreError"])
            /\ UNCHANGED Build
       ELSE IF b \notin DOMAIN Build
       THEN /\ Upd(b, [Drew(t, "no row", 0) EXCEPT !.pc = "returned"])
            /\ UNCHANGED Build
       ELSE /\ Build' = [Build EXCEPT ![b].status = "running"]
            /\ Upd(b, [Drew(t, "row", 0) EXCEPT !.pc = "notify", !.found = TRUE])
    /\ UNCHANGED <<BuildLog, events, emitFailed>>

\* Lines 93-96.
NotifyRunning(b, fault) ==
    LET t == task[b] IN
    /\ t.pc = "notify"
    /\ fault \in {NoFault, EmitFault}
    /\ Emit(EvStatusUpdate(b, "running"), fault)
    /\ Upd(b, [t EXCEPT !.pc = "parse"])
    /\ UNCHANGED <<Build, BuildLog>>

\* Lines 99-102: json.loads raises on invalid JSON; config.get raises when the
\* JSON is not an object; len(steps) raises when "steps" is null or a number;
\* otherwise steps has n elements (n = 0 also for a missing key and for an
\* empty or None pipeline_config_json).
Parse(b) ==
    LET t == task[b] IN
    /\ t.pc = "parse"
    /\ \/ \E err \in {"JSONDecodeError", "AttributeError", "TypeError"} :
            Upd(b, Raise(Drew(t, err, 0), err))
       \/ \E n \in 0..t.maxsteps :
            Upd(b, [Drew(t, "steps", n) EXCEPT
                       !.pc = "loop", !.nsteps = n,
                       !.total_steps = TotalSteps(n), !.index = 0])
    /\ UNCHANGED <<Build, BuildLog, events, emitFailed>>

\* Lines 104-112: the next element of steps; step.get raises when it is not
\* a dict; else build_step_start is published.
StepStart(b, fault) ==
    LET t == task[b] IN
    /\ t.pc = "loop"
    /\ t.index < t.nsteps
    /\ fault \in {NoFault, EmitFault}
    /\ \E step \in StepShapes :
         IF step \notin Cmds
         THEN /\ fault = NoFault
              /\ Upd(b, Raise(Drew(t, step, 0), "AttributeError"))
              /\ NoEmit
         ELSE /\ Emit(EvStepStart(b, t.index, step), fault)
              /\ Upd(b, [Drew(t, step, 0) EXCEPT !.pc = "run", !.cmd = step])
    /\ UNCHANGED <<Build, BuildLog>>

\* ------------------------------------------------- run_command_and_stream
\* The step has returned rc after producing t.lineno lines; proc tells what
\* became of its process: none was asked for, Popen failed, it was reaped.
Returned(t, rc) ==
    [t EXCEPT !.pc = "progress", !.rc = rc,
              !.outcomes = Append(@, [step_index |-> t.index, cmd |-> t.cmd,
                                      exit_code |-> rc, lines |-> t.lineno,
                                      proc |-> t.proc])]

\* Variant of Spawn: a Popen that raises is reported as exit code 0.
SpawnFailureIgnored(b) ==
    LET t == task[b]
        s == [t EXCEPT !.started = Append(@, t.index), !.lineno = 0,
                       !.buffer = <<>>, !.emit_cooldown = 0, !.proc = "none"]
    IN
    /\ t.pc = "run"
    /\ IF NoCmd(t.cmd)
       THEN Upd(b, Returned(s, 0))
       ELSE \/ Upd(b, Returned([Drew(s, "Popen raises", 0) EXCEPT
                                    !.proc = "failed"], 0))
            \/ Upd(b, [Drew(s, "Popen", 0) EXCEPT
                          !.pc = "read", !.proc = "running"])
    /\ UNCHANGED <<Build, BuildLog, events, emitFailed>>

\* Lines 11-33: no command: return 0; Popen raises: return 1; else start
\* reading with an empty buffer.
Spawn(b) ==
    LET t == task[b]
        s == [t EXCEPT !.started = Append(@, t.index), !.lineno = 0,
                       !.buffer = <<>>, !.emit_cooldown = 0, !.proc = "none"]
    IN
    /\ t.pc = "run"
    /\ IF NoCmd(t.cmd)
       THEN Upd(b, Returned(s, 0))
       ELSE \/ Upd(b, Returned([Drew(s, "Popen raises", 0) EXCEPT
                                    !.proc = "failed"], 1))
            \/ Upd(b, [Drew(s, "Popen", 0) EXCEPT
                          !.pc = "read", !.proc = "running"])
    /\ UNCHANGED <<Build, BuildLog, events, emitFailed>>

\* Lines 36-63, one iteration: readline returns a line.  StoreFault: the
\* commit of a full batch raises.  EmitFault: the build_log emit raises.
ReadLine(b, fault) ==
    LET t == task[b]
        text == t.lineno + 1
        buffer == Append(t.buffer, text)
        cooldown == t.emit_cooldown + 1
    IN
    /\ t.pc = "read"
    /\ t.produced < t.quota
    /\ fault = StoreFault => BatchFull(buffer)
    /\ fault = EmitFault => CooldownOver(cooldown)
    /\ IF fault = StoreFault
       THEN /\ Upd(b, Raise([Drew(t, "StoreError", 0) EXCEPT
                                 !.lineno = text, !.produced = @ + 1,
                                 !.buffer = buffer], "StoreError"))
            /\ UNCHANGED BuildLog
            /\ NoEmit
       ELSE /\ BuildLog' = IF BatchFull(buffer)
                           THEN BuildLog \o FlushedRows(b, t.index, buffer)
                           ELSE BuildLog
            /\ IF CooldownOver(cooldown)
               THEN Emit(EvLog(b, t.index, text), fault)
               ELSE NoEmit
            /\ Upd(b, [t EXCEPT !.lineno = text, !.produced = @ + 1,
                                !.buffer = IF BatchFull(buffer) THEN <<>> ELSE buffer,
                                !.emit_cooldown =
                                    IF CooldownOver(cooldown) THEN 0 ELSE cooldown])
    /\ UNCHANGED Build

\* Variant of EndOfStream without the flush of the remaining buffer.
EndOfStreamNoDrain(b, fault) ==
    LET t == task[b] IN
    /\ t.pc = "read"
    /\ fault = NoFault
    /\ \E rc \in ExitCodes :
         Upd(b, Returned([Drew(Drew(t, "lines", t.lineno), "exit", rc)
                             EXCEPT !.buffer = <<>>, !.proc = "reaped"], rc))
    /\ UNCHANGED <<Build, BuildLog, events, emitFailed>>

\* Variant of EndOfStream without proc.wait(): the exit code is polled and
\* the process is left running.
EndOfStreamNoWait(b, fault) ==
    LET t == task[b] IN
    /\ t.pc = "read"
    /\ fault \in {NoFault, StoreFault}
    /\ fault = StoreFault => t.buffer # <<>>
    /\ IF fault = StoreFault
       THEN /\ Upd(b, Raise(Drew(t, "StoreError", 0), "StoreError"))
            /\ UNCHANGED BuildLog
       ELSE /\ BuildLog' = IF t.buffer # <<>>
                           THEN BuildLog \o FlushedRows(b, t.index, t.buffer)
                           ELSE BuildLog
            /\ \E rc \in ExitCodes :
                 Upd(b, Returned([Drew(Drew(t, "lines", t.lineno), "exit", rc)
                                     EXCEPT !.buffer = <<>>], rc))
    /\ UNCHANGED <<Build, events, emitFailed>>

\* Lines 36-38 and 65-76: readline returns "", the remaining buffer is
\* committed, stdout is closed and the process is waited for.
\* StoreFault: the commit of the remainder raises.
EndOfStream(b, fault) ==
    LET t == task[b] IN
    /\ t.pc = "read"
    /\ fault \in {NoFault, StoreFault}
    /\ fault = StoreFault => t.buffer # <<>>
    /\ IF fault = StoreFault
       THEN /\ Upd(b, Raise(Drew(t, "StoreError", 0), "StoreError"))
            /\ UNCHANGED BuildLog
       ELSE /\ BuildLog' = IF t.buffer # <<>>
                           THEN BuildLog \o FlushedRows(b, t.index, t.buffer)
                           ELSE BuildLog
            /\ \E rc \in ExitCodes :
                 Upd(b, Returned([Drew(Drew(t, "lines", t.lineno), "exit", rc)
                                     EXCEPT !.buffer = <<>>, !.proc = "reaped"],
                                 rc))
    /\ UNCHANGED <<Build, events, emitFailed>>

\* ------------------------------------------- run_build_thread, continued
\* Variant of Progress without the try around the emit: an emit that raises
\* reaches the handler.
ProgressUnguarded(b, fault) ==
    LET t == task[b] IN
    /\ t.pc = "progress"
    /\ fault \in {NoFault, EmitFault}
    /\ Emit(EvProgress(b, ProgressPercent(t.index, t.total_steps)), fault)
    /\ Upd(b, IF fault = EmitFault
              THEN Raise(t, "EmitError")
              ELSE [t EXCEPT !.pc = "check"])
    /\ UNCHANGED <<Build, BuildLog>>

\* Lines 116-122.
Progress(b, fault) ==
    LET t == task[b] IN
    /\ t.pc = "progress"
    /\ fault \in {NoFault, EmitFault}
    /\ Emit(EvProgress(b, ProgressPercent(t.index, t.total_steps)), fault)
    /\ Upd(b, [t EXCEPT !.pc = "check"])
    /\ UNCHANGED <<Build, BuildLog>>

\* Line 124 with rc = 0: on to the next element of steps.
NextStep(b) ==
    LET t == task[b] IN
    /\ t.pc = "check"
    /\ ~StepFailed(t.rc)
    /\ Upd(b, [t EXCEPT !.pc = "loop", !.index = @ + 1])
    /\ UNCHANGED <<Build, BuildLog, events, emitFailed>>

\* Variant of WriteFinished: the status write is left out, the task goes on
\* to publish.
WriteFinishedSkipped(b, t, s, fault, next) ==
    /\ Upd(b, [t EXCEPT !.pc = next])
    /\ UNCHANGED Build

\* A terminal status write (lines 125-130 and 138-143): db.session.get
\* returns None for a missing row and `build.status = ...` raises
\* AttributeError; StoreFault: get or commit raises.
WriteFinished(b, t, s, fault, next) ==
    IF fault = StoreFault
    THEN /\ Upd(b, Raise(Drew(t, "StoreError", 0), "StoreError"))
         /\ UNCHANGED Build
    ELSE IF b \notin DOMAIN Build
    THEN /\ Upd(b, Raise(Drew(t, "no row", 0), "AttributeError"))
         /\ UNCHANGED Build
    ELSE /\ Build' = [Build EXCEPT ![b] = Finished(s)]
         /\ Upd(b, [Drew(t, "row", 0) EXCEPT !.pc = next])

\* Lines 124-130 with rc != 0.
FailFast(b, fault) ==
    LET t == task[b] IN
    /\ t.pc = "check"
    /\ StepFailed(t.rc)
    /\ fault \in {NoFault, StoreFault}
    /\ WriteFinished(b, t, "failed", fault, "emit_failed")
    /\ UNCHANGED <<BuildLog, events, emitFailed>>

\* Variant of PublishFailed without the `return`: the loop goes on.
PublishFailedNoReturn(b, fault) ==
    LET t == task[b] IN
    /\ t.pc = "emit_failed"
    /\ fault \in {NoFault, EmitFault}
    /\ Emit(EvFinished(b, "failed"), fault)
    /\ Upd(b, [t EXCEPT !.pc = "loop", !.index = @ + 1])
    /\ UNCHANGED <<Build, BuildLog>>

\* Lines 132-136.
PublishFailed(b, fault) ==
    LET t == task[b] IN
    /\ t.pc = "emit_failed"
    /\ fault \in {NoFault, EmitFault}
    /\ Emit(EvFinished(b, "failed"), fault)
    /\ Upd(b, [t EXCEPT !.pc = "returned"])
    /\ UNCHANGED <<Build, BuildLog>>

\* Lines 138-143: the loop is exhausted.
Succeed(b, fault) ==
    LET t == task[b] IN
    /\ t.pc = "loop"
    /\ t.index = t.nsteps
    /\ fault \in {NoFault, StoreFault}
    /\ WriteFinished(b, t, "success", fault, "emit_success")
    /\ UNCHANGED <<BuildLog, events, emitFailed>>

\* Variant of PublishSuccess without the try around the emit: an emit that
\* raises reaches the handler.
PublishSuccessUnguarded(b, fault) ==
    LET t == task[b] IN
    /\ t.pc = "emit_success"
    /\ fault \in {NoFault, EmitFault}
    /\ Emit(EvFinished(b, "success"), fault)
    /\ Upd(b, IF fault = EmitFault
              THEN Raise(t, "EmitError")
              ELSE [t EXCEPT !.pc = "returned"])
    /\ UNCHANGED <<Build, BuildLog>>

\* Lines 145-148.
PublishSuccess(b, fault) ==
    LET t == task[b] IN
    /\ t.pc = "emit_success"
    /\ fault \in {NoFault, EmitFault}
    /\ Emit(EvFinished(b, "success"), fault)
    /\ Upd(b, [t EXCEPT !.pc = "returned"])
    /\ UNCHANGED <<Build, BuildLog>>

\* Variant of Handler without `if build`: a missing row makes
\* `build.status = "failed"` raise inside the handler.
HandlerUnguarded(b, fault) ==
    LET t == task[b] IN
    /\ t.pc = "handler"
    /\ fault \in {NoFault, StoreFault}
    /\ IF fault = StoreFault
       THEN /\ Upd(b, [Drew(t, "StoreError", 0) EXCEPT
                           !.pc = "raised", !.error = "StoreError"])
            /\ UNCHANGED Build
       ELSE IF b \notin DOMAIN Build
       THEN /\ Upd(b, [Drew(t, "no row", 0) EXCEPT
                           !.pc = "raised", !.error = "AttributeError"])
            /\ UNCHANGED Build
       ELSE /\ Build' = [Build EXCEPT ![b] = Finished("failed")]
            /\ Upd(b, [Drew(t, "row", 0) EXCEPT !.pc = "emit_error"])
    /\ UNCHANGED <<BuildLog, events, emitFailed>>

\* Variant of Handler that publishes nothing: the task returns after the
\* status write.
HandlerSilent(b, fault) ==
    LET t == task[b] IN
    /\ t.pc = "handler"
    /\ fault \in {NoFault, StoreFault}
    /\ IF fault = StoreFault
       THEN /\ Upd(b, [Drew(t, "StoreError", 0) EXCEPT
                           !.pc = "raised", !.error = "StoreError"])
            /\ UNCHANGED Build
       ELSE /\ Build' = IF b \in DOMAIN Build
                        THEN [Build EXCEPT ![b] = Finished("failed")]
                        ELSE Build
            /\ Upd(b, [Drew(t, IF b \in DOMAIN Build THEN "row" ELSE "no row", 0)
                          EXCEPT !.pc = "returned"])
    /\ UNCHANGED <<BuildLog, events, emitFailed>>

\* Lines 150-157: the build, if it still exists, is forced to failed.
\* StoreFault: get or commit raises inside the handler and the exception
\* leaves the task.
Handler(b, fault) ==
    LET t == task[b] IN
    /\ t.pc = "handler"
    /\ fault \in {NoFault, StoreFault}
    /\ IF fault = StoreFault
       THEN /\ Upd(b, [Drew(t, "StoreError", 0) EXCEPT
                           !.pc = "raised", !.error = "StoreError"])
            /\ UNCHANGED Build
       ELSE /\ Build' = IF b \in DOMAIN Build
                        THEN [Build EXCEPT ![b] = Finished("failed")]
                        ELSE Build
            /\ Upd(b, [Drew(t, IF b \in DOMAIN Build THEN "row" ELSE "no row", 0)
                          EXCEPT !.pc = "emit_error"])
    /\ UNCHANGED <<BuildLog, events, emitFailed>>

\* Lines 159-164.
PublishError(b, fault) ==
    LET t == task[b] IN
    /\ t.pc = "emit_error"
    /\ fault \in {NoFault, EmitFault}
    /\ Emit(EvFinishedError(b, "failed", t.error), fault)
    /\ Upd(b, [t EXCEPT !.pc = "returned"])
    /\ UNCHANGED <<Build, BuildLog>>

\* ------------------------------------------------------------ environment
\* The Build row is deleted between enqueue and execution.
DeleteBuild(b) ==
    /\ task[b].pc = "entry"
    /\ b \in DOMAIN Build
    /\ Build' = [c \in DOMAIN Build \ {b} |-> Build[c]]
    /\ UNCHANGED <<BuildLog, events, emitFailed, task, scan>>

\* The Build row is deleted while its task runs.
DeleteRunningBuild(b) ==
    /\ task[b].pc \notin {"entry", "returned", "raised"}
    /\ b \in DOMAIN Build
    /\ Build' = [c \in DOMAIN Build \ {b} |-> Build[c]]
    /\ UNCHANGED <<BuildLog, events, emitFailed, task, scan>>

\* --------------------------------------------------------- specifications
\* The store and the transport answer every call, and a Build row is
\* deleted, if at all, before its task starts.
Next ==
    \/ \E b \in BuildIds : DeleteBuild(b)
    \/ \E b \in BuildIds : Entry(b, NoFault)
    \/ \E b \in BuildIds : NotifyRunning(b, NoFault)
    \/ \E b \in BuildIds : Parse(b)
    \/ \E b \in BuildIds : StepStart(b, NoFault)
    \/ \E b \in BuildIds : Spawn(b)
    \/ \E b \in BuildIds : ReadLine(b, NoFault)
    \/ \E b \in BuildIds : EndOfStream(b, NoFault)
    \/ \E b \in BuildIds : Progress(b, NoFault)
    \/ \E b \in BuildIds : NextStep(b)
    \/ \E b \in BuildIds : FailFast(b, NoFault)
    \/ \E b \in BuildIds : PublishFailed(b, NoFault)
    \/ \E b \in BuildIds : Succeed(b, NoFault)
    \/ \E b \in BuildIds : PublishSuccess(b, NoFault)
    \/ \E b \in BuildIds : Handler(b, NoFault)
    \/ \E b \in BuildIds : PublishError(b, NoFault)

Spec == Init /\ [][Next]_vars

\* Any store call and any emit may raise, and the Build row may be deleted
\* at any time.
FaultNext ==
    \/ Next
    \/ \E b \in BuildIds : DeleteRunningBuild(b)
    \/ \E b \in BuildIds : Entry(b, StoreFault)
    \/ \E b \in BuildIds : NotifyRunning(b, EmitFault)
    \/ \E b \in BuildIds : StepStart(b, EmitFault)
    \/ \E b \in BuildIds : ReadLine(b, StoreFault)
    \/ \E b \in BuildIds : ReadLine(b, EmitFault)
    \/ \E b \in BuildIds : EndOfStream(b, StoreFault)
    \/ \E b \in BuildIds : Progress(b, EmitFault)
    \/ \E b \in BuildIds : FailFast(b, StoreFault)
    \/ \E b \in BuildIds : PublishFailed(b, EmitFault)
    \/ \E b \in BuildIds : Succeed(b, StoreFault)
    \/ \E b \in BuildIds : PublishSuccess(b, EmitFault)
    \/ \E b \in BuildIds : Handler(b, StoreFault)
    \/ \E b \in BuildIds : PublishError(b, EmitFault)

FaultSpec == FaultInit /\ [][FaultNext]_vars

\* The store answers every call; any emit may raise, and the Build row may be
\* deleted at any time.
LossyNext ==
    \/ Next
    \/ \E b \in BuildIds : DeleteRunningBuild(b)
    \/ \E b \in BuildIds : NotifyRunning(b, EmitFault)
    \/ \E b \in BuildIds : StepStart(b, EmitFault)
    \/ \E b \in BuildIds : ReadLine(b, EmitFault)
    \/ \E b \in BuildIds : Progress(b, EmitFault)
    \/ \E b \in BuildIds : PublishFailed(b, EmitFault)
    \/ \E b \in BuildIds : PublishSuccess(b, EmitFault)
    \/ \E b \in BuildIds : PublishError(b, EmitFault)

LossySpec == FaultInit /\ [][LossyNext]_vars

\* One step of run_build_thread for build b, the store and the transport
\* answering.
Run(b) ==
    \/ Entry(b, NoFault)
    \/ NotifyRunning(b, NoFault)
    \/ Parse(b)
    \/ StepStart(b, NoFault)
    \/ Spawn(b)
    \/ ReadLine(b, NoFault)
    \/ EndOfStream(b, NoFault)
    \/ Progress(b, NoFault)
    \/ NextStep(b)
    \/ FailFast(b, NoFault)
    \/ PublishFailed(b, NoFault)
    \/ Succeed(b, NoFault)
    \/ PublishSuccess(b, NoFault)
    \/ Handler(b, NoFault)
    \/ PublishError(b, NoFault)

\* Build b is executed once build a is over, and is given what build a was
\* given: the same row, definition, steps, lines and exit codes.
Rerun(b, a) ==
    /\ task[a].pc \in {"returned", "raised"}
    /\ Run(b)
    /\ LET given == task'[b].inputs IN
       /\ Len(given) <= Len(task[a].inputs)
       /\ given = SubSeq(task[a].inputs, 1, Len(given))

\* Build 1 is executed with a transport that may fail at any emit; then
\* build 2 is executed on the same inputs with a transport that does not.
ReplayInit == InitBuilds({1, 2}, ReplayLines, ReplaySteps)

ReplayNext ==
    \/ Entry(1, NoFault)
    \/ NotifyRunning(1, NoFault)
    \/ NotifyRunning(1, EmitFault)
    \/ Parse(1)
    \/ StepStart(1, NoFault)
    \/ StepStart(1, EmitFault)
    \/ Spawn(1)
    \/ ReadLine(1, NoFault)
    \/ ReadLine(1, EmitFault)
    \/ EndOfStream(1, NoFault)
    \/ Progress(1, NoFault)
    \/ Progress(1, EmitFault)
    \/ NextStep(1)
    \/ FailFast(1, NoFault)
    \/ PublishFailed(1, NoFault)
    \/ PublishFailed(1, EmitFault)
    \/ Succeed(1, NoFault)
    \/ PublishSuccess(1, NoFault)
    \/ PublishSuccess(1, EmitFault)
    \/ Handler(1, NoFault)
    \/ PublishError(1, NoFault)
    \/ PublishError(1, EmitFault)
    \/ Rerun(2, 1)

ReplaySpec == ReplayInit /\ [][ReplayNext]_vars

\* Build 1 is executed alone.  Then builds 2 and 3 are executed concurrently
\* (start_background_task gives each build a task of its own), their steps
\* interleaved in any order, each on the inputs build 1 was given.
ConcInit == InitBuilds({1, 2, 3}, ConcLines, ConcSteps)

ConcNext ==
    \/ Entry(1, NoFault)
    \/ NotifyRunning(1, NoFault)
    \/ Parse(1)
    \/ StepStart(1, NoFault)
    \/ Spawn(1)
    \/ ReadLine(1, NoFault)
    \/ EndOfStream(1, NoFault)
    \/ Progress(1, NoFault)
    \/ NextStep(1)
    \/ FailFast(1, NoFault)
    \/ PublishFailed(1, NoFault)
    \/ Succeed(1, NoFault)
    \/ PublishSuccess(1, NoFault)
    \/ Handler(1, NoFault)
    \/ PublishError(1, NoFault)
    \/ \E b \in {2, 3} : Rerun(b, 1)

ConcSpec == ConcInit /\ [][ConcNext]_vars

\* ---------------------------------------------------------------- scanner
\* The similarity scores scan_file can return, in hundredths: best_score
\* starts at 0 and a cosine similarity is at most 1; each threshold, the
\* value just below it, and the two ends.
Scores == {0, THRESHOLD_LOW - 1, THRESHOLD_LOW, THRESHOLD_MED - 1,
           THRESHOLD_MED, THRESHOLD_HIGH - 1, THRESHOLD_HIGH, 100}

classify_risk(score) ==
    IF score >= THRESHOLD_HIGH THEN "HIGH"
    ELSE IF score >= THRESHOLD_MED THEN "MEDIUM"
    ELSE IF score >= THRESHOLD_LOW THEN "LOW"
    ELSE "SAFE"

\* The code points of the strings classify_risk returns.
CodePoints(s) ==
    CASE s = "HIGH"   -> <<72, 73, 71, 72>>
      [] s = "MEDIUM" -> <<77, 69, 68, 73, 85, 77>>
      [] s = "LOW"    -> <<76, 79, 87>>
      [] s = "SAFE"   -> <<83, 65, 70, 69>>

\* Python's < on two strings: by the first code point that differs, a
\* proper prefix being the smaller.
RECURSIVE SeqLess(_, _)
SeqLess(s, t) ==
    IF t = <<>> THEN FALSE
    ELSE IF s = <<>> THEN TRUE
    ELSE IF Head(s) # Head(t) THEN Head(s) < Head(t)
    ELSE SeqLess(Tail(s), Tail(t))

StrGreater(a, b) == SeqLess(CodePoints(b), CodePoints(a))

\* Python's max(xs, default=d): the first of the greatest items of xs, d
\* if xs is empty.
RECURSIVE MaxFrom(_, _)
MaxFrom(best, rest) ==
    IF rest = <<>> THEN best
    ELSE MaxFrom(IF StrGreater(Head(rest), best) THEN Head(rest) ELSE best,
                 Tail(rest))

max(xs, default) == IF xs = <<>> THEN default ELSE MaxFrom(Head(xs), Tail(xs))

\* [f["risk"] for f in findings]
RisksOf(findings) == [i \in 1..Len(findings) |-> findings[i].risk]

BuildVars == <<Build, BuildLog, events, emitFailed, task>>

\* A file whose name does not end in one of SCAN_FILE_TYPES is passed over.
SkipFile ==
    /\ scan.pc = "walk"
    /\ scan.visited < MaxFiles
    /\ scan' = [scan EXCEPT !.visited = @ + 1]
    /\ UNCHANGED BuildVars

\* scan_file of a file with no text returns no score: the file is counted
\* and gives no finding.
ScanEmptyFile ==
    /\ scan.pc = "walk"
    /\ scan.visited < MaxFiles
    /\ scan' = [scan EXCEPT !.visited = @ + 1, !.total_files = @ + 1]
    /\ UNCHANGED BuildVars

\* A file is scanned: it is counted, and it is a finding if its score
\* reaches THRESHOLD_LOW.
ScanFile(score) ==
    /\ scan.pc = "walk"
    /\ scan.visited < MaxFiles
    /\ scan' = [scan EXCEPT
                   !.visited = @ + 1,
                   !.total_files = @ + 1,
                   !.findings =
                       IF score < THRESHOLD_LOW THEN @
                       ELSE Append(@, [score |-> score,
                                       risk |-> classify_risk(score)])]
    /\ UNCHANGED BuildVars

\* os.walk is exhausted: the summary is built.
Summarise ==
    /\ scan.pc = "walk"
    /\ scan' = [scan EXCEPT
                   !.pc = "report",
                   !.overall_risk = max(RisksOf(scan.findings), "SAFE")]
    /\ UNCHANGED BuildVars

\* The reports are written; then sys.exit(1) if fail_on_high and the
\* overall risk is HIGH, else the summary is returned.
Finish ==
    /\ scan.pc = "report"
    /\ scan' = IF scan.fail_on_high /\ scan.overall_risk = "HIGH"
               THEN [scan EXCEPT !.pc = "exited", !.exit_code = 1]
               ELSE [scan EXCEPT !.pc = "returned"]
    /\ UNCHANGED BuildVars

\* One run of the scanner, with or without --fail-on-high; no build.
ScanInit ==
    /\ Build = <<>>
    /\ BuildLog = <<>>
    /\ events = <<>>
    /\ emitFailed = {}
    /\ task = <<>>
    /\ scan \in {NewScan(f) : f \in BOOLEAN}

ScanNext ==
    \/ SkipFile
    \/ ScanEmptyFile
    \/ \E score \in Scores : ScanFile(score)
    \/ Summarise
    \/ Finish

ScanSpec == ScanInit /\ [][ScanNext]_vars

\* ------------------------------------------------------------- properties
Terminal == {"success", "failed"}

\* The exit code run_command_and_stream returned for step i, if it returned.
OutcomesOf(b, i) == {o \in Range(task[b].outcomes) : o.step_index = i}

StepIndices == 0..(MaxSteps - 1)

\* C1: every change of a build's persisted status is queued -> running,
\* running -> success or running -> failed; a status that is success or
\* failed is never changed, on any path, the error handler's included.
C1_StatusTransitions ==
    [][\A b \in DOMAIN Build \cap DOMAIN Build' :
          Build'[b].status # Build[b].status =>
              <<Build[b].status, Build'[b].status>> \in
                  {<<"queued", "running">>, <<"running", "success">>,
                   <<"running", "failed">>}]_vars

\* A build that the error handler forced to failed.
C1_Witness ==
    \E b \in DOMAIN Build :
        /\ task[b].pc = "returned"
        /\ task[b].error = "StoreError"
        /\ Build[b].status = "failed"

\* C2: finished_at is set exactly when the persisted status is success or
\* failed: unset while queued or running, set by the write that makes the
\* status terminal.
C2_FinishedAtIffTerminal ==
    \A b \in DOMAIN Build :
        (Build[b].finished_at # None) <=> (Build[b].status \in Terminal)

\* A build written success, finished_at with it.
C2_Witness ==
    \E b \in DOMAIN Build :
        /\ Build[b].status = "success"
        /\ Build[b].finished_at = UtcNow
        /\ task[b].pc = "emit_success"

\* C3: the steps of a build are started in strictly increasing index order,
\* none twice, and step i + 1 only after step i returned exit code 0.
C3_StepsInOrder ==
    \A b \in BuildIds :
        LET st == task[b].started IN
        /\ \A j, k \in 1..Len(st) : j < k => st[j] < st[k]
        /\ \A k \in 1..Len(st) :
               st[k] > 0 => \E o \in OutcomesOf(b, st[k] - 1) : o.exit_code = 0

\* The third step of a build has been started.
C3_Witness ==
    \E b \in BuildIds :
        /\ Len(task[b].started) = 3
        /\ task[b].pc = "read"
        /\ task[b].lineno > 0

\* The build_step_start events and the BuildLog rows of steps after step k.
StartsAfter(b, k) ==
    SelectSeq(events, LAMBDA e : /\ e.build_id = b
                                 /\ e.event = "build_step_start"
                                 /\ e.payload.step_index > k)
RowsAfter(b, k) ==
    SelectSeq(BuildLog, LAMBDA r : r.build_id = b /\ r.step_index > k)
FinishedWith(b, s) ==
    SelectSeq(events, LAMBDA e : /\ e.build_id = b
                                 /\ e.event = "build_finished"
                                 /\ e.payload.status = s)

\* C4: once a step has returned a non-zero exit code there is never a
\* build_step_start event nor a BuildLog row of a later step, and when the
\* task has returned the persisted status is failed and exactly one
\* build_finished event with status failed has been published.
C4_FailFast ==
    \A b \in BuildIds :
        \A o \in Range(task[b].outcomes) :
            o.exit_code # 0 =>
                /\ StartsAfter(b, o.step_index) = <<>>
                /\ RowsAfter(b, o.step_index) = <<>>
                /\ task[b].pc = "returned" =>
                       /\ b \in DOMAIN Build
                       /\ Build[b].status = "failed"
                       /\ Len(FinishedWith(b, "failed")) = 1
                       /\ Len(EventsOf(b, "build_finished")) = 1

\* The second of three steps failed after printing, and the task returned.
C4_Witness ==
    \E b \in BuildIds :
        /\ task[b].pc = "returned"
        /\ task[b].nsteps = 3
        /\ \E o \in OutcomesOf(b, 1) : o.exit_code # 0 /\ o.lines > 0

AllPassed(b) ==
    /\ task[b].nsteps >= 1
    /\ Len(task[b].outcomes) = task[b].nsteps
    /\ \A o \in Range(task[b].outcomes) : o.exit_code = 0

\* C5: when all N >= 1 steps returned 0 and the task has returned, the
\* persisted status is success with finished_at set, the build_step_start
\* events are exactly those of indices 0..N-1 in this order, and the last
\* build_progress event has value 100.
C5_AllStepsPass ==
    \A b \in BuildIds :
        (task[b].pc = "returned" /\ AllPassed(b)) =>
            LET starts == EventsOf(b, "build_step_start")
                progress == EventsOf(b, "build_progress")
            IN
            /\ b \in DOMAIN Build
            /\ Build[b].status = "success"
            /\ Build[b].finished_at # None
            /\ Len(starts) = task[b].nsteps
            /\ \A k \in 1..Len(starts) : starts[k].payload.step_index = k - 1
            /\ progress # <<>>
            /\ progress[Len(progress)].payload.progress = 100

\* Three steps passed, one of them after more than a batch of output.
C5_Witness ==
    \E b \in BuildIds :
        /\ task[b].pc = "returned"
        /\ task[b].nsteps = 3
        /\ AllPassed(b)
        /\ \E o \in Range(task[b].outcomes) : o.lines > BatchSize

\* C6: once a step has returned after producing L lines, BuildLog holds
\* exactly L rows of that (build_id, step_index): each of the lines 1..L
\* once.
C6_LogCompleteness ==
    \A b \in BuildIds :
        \A o \in Range(task[b].outcomes) :
            LET texts == TextsOf(b, o.step_index) IN
            /\ Len(texts) = o.lines
            /\ Range(texts) = 1..o.lines

\* A step returned after 37 lines: two full batches and a remainder of 7.
C6_Witness ==
    \E b \in BuildIds :
        \E o \in Range(task[b].outcomes) :
            /\ o.lines = 2 * BatchSize + 7
            /\ Len(RowsOf(b, o.step_index)) = 2 * BatchSize + 7

\* The lines step i of build b has produced so far.
ProducedBy(b, i) ==
    IF OutcomesOf(b, i) # {}
    THEN (CHOOSE o \in OutcomesOf(b, i) : TRUE).lines
    ELSE IF task[b].pc = "read" /\ task[b].index = i
    THEN task[b].lineno
    ELSE 0

IsPrefix(s, t) == Len(s) <= Len(t) /\ \A k \in 1..Len(s) : s[k] = t[k]

\* C7: at every moment the rows of a (build_id, step_index), in storage
\* order, are the first lines the step produced, in production order; and
\* the table only grows at its end: no row is moved, changed or removed.
C7_LogOrdering ==
    /\ [](\A b \in BuildIds : \A i \in StepIndices :
            LET texts == TextsOf(b, i) IN
            /\ Len(texts) <= ProducedBy(b, i)
            /\ \A k \in 1..Len(texts) : texts[k] = k)
    /\ [][IsPrefix(BuildLog, BuildLog')]_vars

\* A batch of the second step is stored while the step goes on printing.
C7_Witness ==
    \E b \in BuildIds :
        /\ task[b].pc = "read"
        /\ task[b].index = 1
        /\ Len(RowsOf(b, 0)) > 0
        /\ Len(RowsOf(b, 1)) = BatchSize
        /\ task[b].lineno = BatchSize + 2

LogEventsOf(b, i) ==
    SelectSeq(events, LAMBDA e : /\ e.build_id = b
                                 /\ e.event = "build_log"
                                 /\ e.payload.step_index = i)

\* C8: for a step that returned after producing L lines, the build_log
\* events of the step are those of its 5th, 10th, 15th, ... line, L \div 5
\* of them, and all L lines are persisted.
C8_Throttle ==
    \A b \in BuildIds :
        \A o \in Range(task[b].outcomes) :
            LET logs == LogEventsOf(b, o.step_index) IN
            /\ Len(logs) = o.lines \div EmitEvery
            /\ \A k \in 1..Len(logs) : logs[k].payload.text = k * EmitEvery
            /\ Len(RowsOf(b, o.step_index)) = o.lines

\* A step of 34 lines: 6 events, the batches stored at lines 15 and 30.
C8_Witness ==
    \E b \in BuildIds :
        \E o \in Range(task[b].outcomes) :
            /\ o.lines = 2 * BatchSize + 4
            /\ Len(LogEventsOf(b, o.step_index)) = 6

\* The build_progress events of build b match the steps that have returned.
ProgressPerStep(b) ==
    Len(EventsOf(b, "build_progress")) =
        Len(task[b].outcomes) - (IF task[b].pc = "progress" THEN 1 ELSE 0)

\* C9 as stated: one build_progress event per completed step, its value
\* round((completed_steps / total_steps) * 100).
C9_ProgressRounded ==
    \A b \in BuildIds :
        LET progress == EventsOf(b, "build_progress") IN
        /\ ProgressPerStep(b)
        /\ \A k \in 1..Len(progress) :
               progress[k].payload.progress = RoundPercent(k, task[b].total_steps)

\* C9, amended: one build_progress event per completed step, its value the
\* percentage of completed steps truncated to an integer, with total_steps
\* the number of steps, or 1 when there are none.
C9_ProgressTruncated ==
    \A b \in BuildIds :
        LET progress == EventsOf(b, "build_progress") IN
        /\ ProgressPerStep(b)
        /\ task[b].pc \in {"loop", "run", "read", "progress", "check"} =>
               task[b].total_steps = IF task[b].nsteps > 1 THEN task[b].nsteps ELSE 1
        /\ \A k \in 1..Len(progress) :
               /\ k <= task[b].total_steps
               /\ progress[k].payload.progress = (k * 100) \div task[b].total_steps

\* The second of three steps has completed: 66 is published, not 67.
C9_Witness ==
    \E b \in BuildIds :
        LET progress == EventsOf(b, "build_progress") IN
        /\ task[b].total_steps = 3
        /\ Len(progress) = 2
        /\ progress[2].payload.progress = 66

\* C10: a task that finds no Build row of its id returns at once: the step
\* that finds the row missing changes no table and publishes nothing, and
\* the returned task has published no event, stored no row and started no
\* step.
C10_NoOpGuard ==
    /\ [][\A b \in BuildIds :
            (task[b].pc = "entry" /\ b \notin DOMAIN Build /\ task'[b] # task[b]) =>
                /\ task'[b].pc = "returned"
                /\ UNCHANGED <<Build, BuildLog, events>>]_vars
    /\ [](\A b \in BuildIds :
            (task[b].pc # "entry" /\ ~task[b].found) =>
                /\ task[b].pc = "returned"
                /\ task[b].started = <<>>
                /\ \A k \in 1..Len(events) : events[k].build_id # b
                /\ \A k \in 1..Len(BuildLog) : BuildLog[k].build_id # b)

\* The row was deleted before the task started, and the task has returned.
C10_Witness ==
    \E b \in BuildIds :
        /\ b \notin DOMAIN Build
        /\ task[b].pc = "returned"
        /\ ~task[b].found

\* The task of b has ended: run_build_thread returned, or an exception left it.
Ended(b) == task[b].pc \in {"returned", "raised"}

\* An error was raised in the task of b after its build was set to running.
FailedWhileRunning(b) == task[b].found /\ task[b].error # None

\* C11: whenever an unexpected error occurs after the build entered running
\* (the definition does not parse or has the wrong shape, or a store call
\* raises), no further step is started, the build, if its row still exists,
\* ends failed with finished_at set, and one build_finished event with status
\* failed and the error message is published.  It does not hold: the store
\* calls of the handler (lines 151-157) are themselves unguarded, and when one
\* raises the task ends with the status still running and no build_finished.
C11_OrchestrationFault ==
    /\ [](\A b \in BuildIds :
            (Ended(b) /\ FailedWhileRunning(b)) =>
                /\ b \in DOMAIN Build =>
                       /\ Build[b].status = "failed"
                       /\ Build[b].finished_at # None
                /\ \E err \in {"JSONDecodeError", "AttributeError", "TypeError",
                                "StoreError"} :
                       EventsOf(b, "build_finished")
                           = <<EvFinishedError(b, "failed", err)>>)
    /\ [][\A b \in BuildIds :
             FailedWhileRunning(b) => task'[b].started = task[b].started]_vars

\* C12: no exception leaves run_build_thread, whatever store call raises.  It
\* does not hold: the lookup and the commit of lines 84-90 are outside the
\* try, and the store calls of the handler are inside no other try.
C12_NoEscape == \A b \in BuildIds : task[b].pc # "raised"

\* The rows build b has written to BuildLog, and the socketio.emit calls
\* made for it, in order and without the build id.
LogOf(b) ==
    LET rows == SelectSeq(BuildLog, LAMBDA r : r.build_id = b)
    IN [k \in 1..Len(rows) |-> <<rows[k].step_index, rows[k].text>>]

CallsOf(b) ==
    LET calls == SelectSeq(events, LAMBDA e : e.build_id = b)
    IN [k \in 1..Len(calls) |-> [event |-> calls[k].event,
                                 payload |-> calls[k].payload]]

\* C13: two executions of the same build with the same step results, which
\* differ only in which emit calls fail, make the same store writes and end
\* with the same status, finished_at and BuildLog rows; a failed emit does
\* not raise to the caller (the tasks take the same steps to the same end)
\* and is not retried (the same emit calls are made).  Build 1 runs with
\* failing emits, build 2 is the same build run again with none.
C13_PublishFailuresHarmless ==
    (Ended(1) /\ Ended(2)) =>
        /\ task[2] = task[1]
        /\ Build[2] = Build[1]
        /\ LogOf(2) = LogOf(1)
        /\ CallsOf(2) = CallsOf(1)

C13_Witness ==
    /\ Ended(1) /\ Ended(2)
    /\ emitFailed = {1}
    /\ Build[1].status = "success"
    /\ Len(LogOf(1)) >= BatchSize
    /\ EventsOf(1, "build_log") # <<>>

\* C14: every build whose row exists when its task starts publishes exactly
\* one build_finished event over its whole execution, and no event of any
\* kind is published for the build after it: a build_finished call is the
\* last call made for its build, and a task that has ended has made one.
C14_OneBuildFinished ==
    \A b \in BuildIds :
        LET calls == CallsOf(b) IN
        /\ \A k \in 1..Len(calls) :
               calls[k].event = "build_finished" => k = Len(calls)
        /\ (Ended(b) /\ task[b].found) =>
               /\ calls # <<>>
               /\ calls[Len(calls)].event = "build_finished"

C14_Witness ==
    /\ Ended(1)
    /\ task[1].found
    /\ 1 \notin DOMAIN Build
    /\ 1 \in emitFailed
    /\ Len(task[1].outcomes) >= 2
    /\ Len(EventsOf(1, "build_finished")) = 1

\* C15: when the process of a step cannot be spawned, run_command_and_stream
\* does not raise: it returns exit code 1 with no BuildLog row and no
\* build_log event for the step, and the build takes the fail-fast path: no
\* later step is started and the build ends failed with finished_at set.
C15_SpawnFailure ==
    \A b \in BuildIds :
        \A o \in Range(task[b].outcomes) :
            o.proc = "failed" =>
                /\ task[b].error = None
                /\ task[b].pc \in {"progress", "check", "emit_failed", "returned"}
                /\ o.exit_code = 1
                /\ RowsOf(b, o.step_index) = <<>>
                /\ LogEventsOf(b, o.step_index) = <<>>
                /\ StartsAfter(b, o.step_index) = <<>>
                /\ \A i \in Range(task[b].started) : i <= o.step_index
                /\ task[b].pc \in {"emit_failed", "returned"} =>
                       /\ Build[b].status = "failed"
                       /\ Build[b].finished_at # None

\* The second of three steps could not be spawned, and the build is over.
C15_Witness ==
    \E b \in BuildIds :
        /\ task[b].pc = "returned"
        /\ task[b].nsteps = 3
        /\ \E o \in Range(task[b].outcomes) :
               o.proc = "failed" /\ o.step_index = 1 /\ ~NoCmd(o.cmd)
        /\ Build[b].status = "failed"

\* seq has grown into seq2 by elements that all carry the build id b.
GrownBy(seq, seq2, b) ==
    /\ Len(seq2) >= Len(seq)
    /\ SubSeq(seq2, 1, Len(seq)) = seq
    /\ \A k \in (Len(seq) + 1)..Len(seq2) : seq2[k].build_id = b

\* C16: under every interleaving of concurrently executing builds, a step of
\* the task of build b changes no other task, writes only the Build row of b
\* and only BuildLog rows and events that carry the id b; and the final
\* status, the published events and the log sequences of each build are
\* those of the same build executed alone (build 1; builds 2 and 3 run
\* concurrently on its inputs).
C16_BuildIndependence ==
    /\ [][\A b \in BuildIds :
             task'[b] # task[b] =>
                 /\ \A c \in BuildIds \ {b} : task'[c] = task[c]
                 /\ DOMAIN Build' = DOMAIN Build
                 /\ \A c \in DOMAIN Build \ {b} : Build'[c] = Build[c]
                 /\ GrownBy(BuildLog, BuildLog', b)
                 /\ GrownBy(events, events', b)]_vars
    /\ [](\A b \in {2, 3} :
             (Ended(1) /\ Ended(b)) =>
                 /\ task[b] = task[1]
                 /\ Build[b] = Build[1]
                 /\ CallsOf(b) = CallsOf(1)
                 /\ LogOf(b) = LogOf(1))

\* Builds 2 and 3 ran interleaved (build 3 published an event while build 2
\* ran its step, and wrote its rows first) and are over.
C16_Witness ==
    /\ Ended(2) /\ Ended(3)
    /\ \E j, k, l \in 1..Len(events) :
          /\ j < k /\ k < l
          /\ events[j].build_id = 2 /\ events[j].event = "build_step_start"
          /\ events[k].build_id = 3
          /\ events[l].build_id = 2 /\ events[l].event = "build_progress"
    /\ Len(LogOf(2)) = ConcLines /\ Len(LogOf(3)) = ConcLines
    /\ BuildLog[2 * ConcLines].build_id = 3
    /\ BuildLog[3 * ConcLines].build_id = 2

\* C17: at the moment the build_progress event of step i is published (hence
\* before the build_step_start of step i + 1), run_command_and_stream has
\* returned for step i, no process of the step is running, the buffer is
\* empty and every line the step produced is a BuildLog row.
C17_ProgressAfterDrain ==
    [][\A b \in BuildIds :
          EventsOf(b, "build_progress")' # EventsOf(b, "build_progress") =>
              /\ OutcomesOf(b, task[b].index) # {}
              /\ task[b].proc # "running"
              /\ task[b].buffer = <<>>
              /\ Len(RowsOf(b, task[b].index)) = task[b].lineno
              /\ StartsAfter(b, task[b].index) = <<>>]_vars

\* The progress of the second step is published after a full batch and a
\* remainder of its lines were written.
C17_Witness ==
    \E b \in BuildIds :
        /\ task[b].pc = "check"
        /\ task[b].index = 1
        /\ task[b].proc = "reaped"
        /\ task[b].lineno > BatchSize
        /\ Len(EventsOf(b, "build_progress")) = 2

\* C18: for every step whose process was spawned, once control has left
\* run_command_and_stream, for any reason, the output handle is closed and
\* the process is reaped; no build reaches a terminal status while a process
\* it spawned is unreaped.  It does not hold: close() and wait() (lines
\* 73-74) are not in a finally, so a commit that raises inside the loop or
\* at the remainder flush leaves the function with the process running, and
\* the handler then sets the build to failed.
C18_ResourceCleanup ==
    \A b \in BuildIds :
        /\ task[b].pc # "read" => task[b].proc # "running"
        /\ (b \in DOMAIN Build /\ Build[b].status \in Terminal) =>
               task[b].proc # "running"

StepStartsOf(b, i) ==
    SelectSeq(events, LAMBDA e : /\ e.build_id = b
                                 /\ e.event = "build_step_start"
                                 /\ e.payload.step_index = i)

\* C19: a step whose command is empty or missing is a no-op with exit code
\* 0: no process is spawned, no BuildLog row is written and no build_log
\* event is published for it, while its build_step_start and its
\* build_progress are published and the build goes on to the next step.
C19_EmptyCommand ==
    \A b \in BuildIds :
        \A o \in Range(task[b].outcomes) :
            o.cmd \in {None, ""} =>
                /\ o.exit_code = 0
                /\ o.proc = "none"
                /\ o.lines = 0
                /\ RowsOf(b, o.step_index) = <<>>
                /\ LogEventsOf(b, o.step_index) = <<>>
                /\ StepStartsOf(b, o.step_index)
                       = <<EvStepStart(b, o.step_index, o.cmd)>>
                /\ \/ task[b].index = o.step_index /\ task[b].pc = "progress"
                   \/ Len(EventsOf(b, "build_progress")) > o.step_index
                /\ \/ task[b].index = o.step_index
                      /\ task[b].pc \in {"progress", "check"}
                   \/ task[b].index > o.step_index

\* An empty and a missing command were passed over, and the third step
\* ran a process that wrote rows.
C19_Witness ==
    \E b \in BuildIds :
        /\ task[b].pc = "returned"
        /\ Len(task[b].outcomes) = 3
        /\ task[b].outcomes[1].cmd = ""
        /\ task[b].outcomes[2].cmd = None
        /\ task[b].outcomes[3].proc = "reaped"
        /\ RowsOf(b, 2) # <<>>
        /\ Len(EventsOf(b, "build_progress")) = 3

\* The definition of build b was parsed and its step list is empty or
\* missing.
EmptyPipeline(b) ==
    /\ Len(task[b].inputs) >= 2
    /\ task[b].inputs[2] = <<"steps", 0>>

\* C20: a pipeline definition whose step list is empty or missing is a
\* single trivial pass: total_steps = max(1, 0) = 1, no step is run, and the
\* build goes queued -> running -> success with finished_at set and one
\* build_finished event with status success.
C20_EmptyPipeline ==
    \A b \in BuildIds :
        EmptyPipeline(b) =>
            /\ task[b].total_steps = 1
            /\ task[b].started = <<>> /\ task[b].outcomes = <<>>
            /\ task[b].error = None
            /\ \A k \in 1..Len(BuildLog) : BuildLog[k].build_id # b
            /\ task[b].pc \in {"loop", "emit_success", "returned"}
            /\ task[b].pc = "loop" =>
                   /\ Build[b] = [status |-> "running", finished_at |-> None]
                   /\ CallsOf(b) = <<[event |-> "build_status_update",
                                      payload |-> [status |-> "running"]]>>
            /\ task[b].pc \in {"emit_success", "returned"} =>
                   Build[b] = [status |-> "success", finished_at |-> UtcNow]
            /\ task[b].pc = "returned" =>
                   CallsOf(b) = <<[event |-> "build_status_update",
                                   payload |-> [status |-> "running"]],
                                 [event |-> "build_finished",
                                  payload |-> [status |-> "success"]]>>

C20_Witness ==
    \E b \in BuildIds :
        /\ EmptyPipeline(b)
        /\ task[b].pc = "returned"
        /\ Build[b].status = "success"
        /\ Len(EventsOf(b, "build_finished")) = 1

\* C21: whenever a build_status_update event with status running, or a
\* build_finished event with status s, is published for a build whose row
\* exists, the persisted status already is running (respectively s, with
\* finished_at set): the status write is committed before the event is
\* published.
C21_PersistBeforePublish ==
    [][Len(events') > Len(events) =>
          LET e == events'[Len(events')] IN
          (/\ e.event \in {"build_status_update", "build_finished"}
           /\ e.build_id \in DOMAIN Build) =>
              /\ Build[e.build_id].status = e.payload.status
              /\ e.event = "build_finished" =>
                     Build[e.build_id].finished_at # None]_vars

\* The handler has forced a build to failed after a store call raised, and
\* then published build_finished; one emit raised on the way.
C21_Witness ==
    /\ task[1].pc = "returned"
    /\ task[1].error = "StoreError"
    /\ 1 \in DOMAIN Build
    /\ Build[1].status = "failed"
    /\ 1 \in emitFailed
    /\ Len(EventsOf(1, "build_finished")) = 1
    /\ Len(EventsOf(1, "build_status_update")) = 1

\* The row of build b was deleted after the build was set to running and
\* before a terminal status could be written: the task found the row at its
\* entry and at no later lookup.
DeletedWhileRunning(b) ==
    /\ task[b].found
    /\ b \notin DOMAIN Build
    /\ Len(SelectSeq(task[b].inputs, LAMBDA in : in = <<"row", 0>>)) = 1

\* C22: if the Build row is deleted after the build entered running, at any
\* point of the step execution, the task still returns without raising,
\* writes no status any more, and publishes exactly one build_finished event,
\* with status failed and an error message, even when every step returned
\* exit code 0.
C22_DeletedWhileRunning ==
    /\ [](\A b \in BuildIds :
            DeletedWhileRunning(b) =>
                /\ task[b].pc # "raised"
                /\ FinishedWith(b, "success") = <<>>
                /\ Len(FinishedWith(b, "failed")) <= 1
                /\ task[b].pc = "returned" =>
                       \E err \in {"JSONDecodeError", "AttributeError",
                                    "TypeError"} :
                           EventsOf(b, "build_finished")
                               = <<EvFinishedError(b, "failed", err)>>)
    /\ [][\A b \in BuildIds :
             b \notin DOMAIN Build => b \notin DOMAIN Build']_vars

\* Both steps of a build returned 0, the row was deleted meanwhile, and the
\* task has returned.
C22_Witness ==
    /\ DeletedWhileRunning(1)
    /\ task[1].pc = "returned"
    /\ task[1].nsteps = 2
    /\ Len(task[1].outcomes) = 2
    /\ \A o \in Range(task[1].outcomes) : o.exit_code = 0 /\ o.proc = "reaped"
    /\ EventsOf(1, "build_finished") = <<EvFinishedError(1, "failed", "AttributeError")>>

\* Severity of a risk level: HIGH over MEDIUM over LOW over SAFE.
Severity(r) ==
    CASE r = "SAFE" -> 0 [] r = "LOW" -> 1 [] r = "MEDIUM" -> 2 [] r = "HIGH" -> 3

\* The most severe risk level among the findings, SAFE when there is none.
MostSevere(findings) ==
    IF findings = <<>> THEN "SAFE"
    ELSE CHOOSE r \in Range(RisksOf(findings)) :
             \A q \in Range(RisksOf(findings)) : Severity(q) <= Severity(r)

\* C23: once the summary is built, overall_risk is the most severe risk
\* level among the findings (SAFE when there are none); and a scan with
\* fail_on_high that has at least one finding classified HIGH ends by
\* exiting with code 1, whatever the other findings are.
C23_OverallRisk ==
    /\ scan.pc \in {"report", "returned", "exited"} =>
           scan.overall_risk = MostSevere(scan.findings)
    /\ (/\ scan.pc \in {"returned", "exited"}
        /\ scan.fail_on_high
        /\ \E i \in 1..Len(scan.findings) : scan.findings[i].risk = "HIGH") =>
           /\ scan.pc = "exited"
           /\ scan.exit_code = 1
====
